---------------------------- MODULE Spec2Model ----------------------------
(***************************************************************************)
(* The live-update relay of the inventory application:                     *)
(*   - the Notification Bridge, GET /api/events (src/unnamed/part_014):    *)
(*     one ReadableStream session per request, a pg pool of at most 5      *)
(*     subscriber connections, LISTEN/UNLISTEN on inventory_changes;       *)
(*   - the Client Stream Consumer, useRealtimeInventory;                   *)
(*   - the Polling Fallback Consumer, usePolling.                          *)
(* Every handler runs to its next await as one atomic step (single         *)
(* threaded event loop); the database, the pool, the timers and the HTTP   *)
(* client are the environment and act nondeterministically.                *)
(***************************************************************************)
EXTENDS Integers, Sequences, FiniteSets, TLC

(* ------------------------------ bounds -------------------------------- *)
\* disturbances (disconnects, connection and query failures, notifications,
\* heartbeats) of a pool-level run
MaxEvents == 1
\* notifications published on the channel
MaxPub == 2
\* heartbeat events enqueued in total
MaxTicks == 1
\* connection-level failures (error or end) in total
MaxConnFail == 1

\* EventSource objects the stream consumer creates
MaxES == 3
\* reads of /api/inventory the stream consumer starts
MaxReads == 2
\* fetches the polling consumer starts
MaxFetch == 3
\* changes of the stream consumer's initialItems input
MaxProps == 2

(* ------------------------- program constants -------------------------- *)
\* new Pool({ max: 5 })
PoolMax == 5

\* requests of a run: enough to fill the pool and two more
NSess == PoolMax + 2
Sessions == 1..NSess
NConn == PoolMax + MaxConnFail
Conns == 1..NConn
Triggers == {"abort", "error", "catch"}

(* --------------------------- notifications ---------------------------- *)
\* msg.payload as the channel carries it: absent, not JSON, or a JSON object
\* (the trigger's json_build_object output, or any other publisher's object).
P_insert == [raw |-> "object", type |-> "", op |-> "INSERT", id |-> 1]
P_delete == [raw |-> "object", type |-> "", op |-> "DELETE", id |-> 2]
P_typed == [raw |-> "object", type |-> "connected", op |-> "UPDATE", id |-> 3]
P_malformed == [raw |-> "malformed", type |-> "", op |-> "", id |-> 0]
P_absent == [raw |-> "none", type |-> "", op |-> "", id |-> 0]
Payloads == {P_insert, P_delete, P_typed, P_malformed, P_absent}

\* JSON.parse(msg.payload) throws on a payload that is not JSON
ParseThrows(p) == p.raw = "malformed"

\* msg.payload ? JSON.parse(msg.payload) : {}
ParsePayload(p) ==
  IF p.raw = "none" THEN [type |-> "", op |-> "", id |-> 0]
  ELSE [type |-> p.type, op |-> p.op, id |-> p.id]

\* { type: "inventory_update", ...payload }: a later key of the spread wins
FrameUpdate(obj) ==
  [type |-> IF obj.type # "" THEN obj.type ELSE "inventory_update",
   op |-> obj.op, id |-> obj.id]

Bridge(t) == [type |-> t, op |-> "", id |-> 0]
EvConnected == Bridge("connected")
EvHeartbeat == Bridge("heartbeat")
EvError == Bridge("error")

\* the channel contract of the change emitter: a JSON object with operation
\* and id, and no type field
WellFormed(p) == p.raw = "object" /\ p.type = ""

VARIABLES
  cfg,          \* limits of the run, fixed by Init
  dbUrl,        \* process.env.DATABASE_URL is set
  pc,           \* position of start() of each session
  client,       \* the closure variable client (0 = null)
  acquired,     \* the connection pool.connect() handed to the session (0 = none)
  isControllerClosed,
  ctrl,         \* the stream controller: "open", "closed" (close()), "cancelled"
  out,          \* events enqueued on the outbound stream
  hb,           \* heartbeatInterval: "unset", "running", "cleared"
  aborted,      \* request.signal has fired
  abortAt,      \* history, kept when cfg.history: whether start() had subscribed
                \* when request.signal fired: "" (not fired), "subscribed", "setup"
  cl,           \* each cleanup() invocation: "none", "unlisten", "done"
  unlistenCalls,\* client.query("UNLISTEN ...") calls made by the session
  releaseCalls, \* client.release() calls made by the session
  conn,         \* pool's view of a connection: "none", "idle", "held", "gone"
  broken,       \* the connection has errored or ended
  dbListen,     \* the database has the connection subscribed to the channel
  inbox,        \* notifications the database has sent to the connection
  handlers,     \* sessions whose listeners are registered on the connection
  qq,           \* queries queued on the connection (FIFO)
  pubLog,       \* every notification published
  listenAt,     \* Len(pubLog) when the session's LISTEN took effect
  dlv,          \* notifications delivered to the session's handler while open
  ticks,        \* heartbeat events enqueued
  fails,        \* connection and query failures so far
  events,       \* disturbances so far
  \* ---- useRealtimeInventory ----
  rtPhase,      \* "init" (rendered, effect not yet run), "live", "unmounted"
  rtEnabled,    \* the enabled option
  initialItems, \* the initialItems input: 0, then -1, -2, ... for each new value
  changedAt,    \* number of reads started when initialItems last changed
  items,        \* local snapshot: 0 = initialItems, k = result of the k-th read
  isConnected,
  eventSourceRef,      \* eventSourceRef.current (0 = null)
  es,           \* EventSource objects: "none", "connecting", "open", "closed"
  reconnectTimeoutRef, \* reconnectTimeoutRef.current (0 = null)
  timers,       \* setTimeout handles: "none", "pending", "fired", "cleared"
  reads,        \* reads started by refetch()
  readFlight,   \* reads whose response has not arrived
  readOk,       \* reads whose response arrived with response.ok
  updatesSeen,  \* inventory_update messages handled
  \* ---- usePolling ----
  pPhase,       \* "init" (rendered, effect not yet run), "live", "unmounted"
  isMountedRef,
  enabled,      \* the enabled option
  isPolling,
  data,         \* 0 = initialData, k = result of the k-th fetch
  isLoading,
  error,        \* FALSE = null
  intervalRef,  \* intervalRef.current (0 = null)
  intervals,    \* setInterval handles: "none", "active", "cleared"
  fetches,      \* fetches started by refetch()
  fetchFlight,  \* fetches not yet settled
  fetchFailed,  \* fetches that rejected
  fetchClean,   \* fetches in flight since whose start no fetch has rejected
  onErrorCalls, \* calls of the onError callback
  onUpdateCalls, \* calls of the onUpdate callback
  lastUpdate    \* the fetch whose result setLastUpdate stamped (0 = null)

srvVars == <<cfg, dbUrl, pc, client, acquired, isControllerClosed, ctrl, out, hb,
             aborted, abortAt, cl, unlistenCalls, releaseCalls, conn, broken,
             dbListen, inbox, handlers, qq, pubLog, listenAt, dlv, ticks, fails,
             events>>

rtVars == <<rtPhase, rtEnabled, initialItems, changedAt, items, isConnected, eventSourceRef, es, reconnectTimeoutRef,
            timers, reads, readFlight, readOk, updatesSeen>>

pollVars == <<pPhase, isMountedRef, enabled, isPolling, data, isLoading, error,
              intervalRef, intervals, fetches, fetchFlight, fetchFailed, fetchClean,
              onErrorCalls, onUpdateCalls, lastUpdate>>

vars == <<srvVars, rtVars, pollVars>>

(* ------------------------------ helpers ------------------------------- *)
Live(c) == conn[c] \in {"idle", "held"}
LiveCount == Cardinality({c \in Conns : Live(c)})
IdleConns == {c \in Conns : conn[c] = "idle"}
NewConn == CHOOSE c \in Conns : conn[c] = "none" /\ \A d \in Conns : conn[d] = "none" => c <= d

\* controller.enqueue(e) inside try/catch: throws unless the stream is open
Enqueue(o, state, e) == IF state = "open" THEN Append(o, e) ELSE o
\* controller.close() inside try/catch
CloseCtrl(state) == IF state = "open" THEN "closed" ELSE state

\* client.release(): the pool's release function of the current checkout; a
\* broken client is removed, a second release throws (caught by the caller)
ReleaseConn(cs, c) ==
  IF cs[c] = "held"
  THEN [cs EXCEPT ![c] = IF broken[c] THEN "gone" ELSE "idle"]
  ELSE cs

InitSrv(limits, urls) ==
  /\ cfg = limits
  /\ dbUrl \in urls
  /\ pc = [s \in Sessions |-> "idle"]
  /\ client = [s \in Sessions |-> 0]
  /\ acquired = [s \in Sessions |-> 0]
  /\ isControllerClosed = [s \in Sessions |-> FALSE]
  /\ ctrl = [s \in Sessions |-> "open"]
  /\ out = [s \in Sessions |-> <<>>]
  /\ hb = [s \in Sessions |-> "unset"]
  /\ aborted = [s \in Sessions |-> FALSE]
  /\ abortAt = [s \in Sessions |-> ""]
  /\ cl = [s \in Sessions |-> [t \in Triggers |-> "none"]]
  /\ unlistenCalls = [s \in Sessions |-> 0]
  /\ releaseCalls = [s \in Sessions |-> 0]
  /\ conn = [c \in Conns |-> "none"]
  /\ broken = [c \in Conns |-> FALSE]
  /\ dbListen = [c \in Conns |-> FALSE]
  /\ inbox = [c \in Conns |-> <<>>]
  /\ handlers = [c \in Conns |-> <<>>]
  /\ qq = [c \in Conns |-> <<>>]
  /\ pubLog = <<>>
  /\ listenAt = [s \in Sessions |-> 0]
  /\ dlv = [s \in Sessions |-> <<>>]
  /\ ticks = 0
  /\ fails = 0
  /\ events = 0


\* one more disturbance of the run
Disturb == events < cfg.events /\ events' = events + 1

(* ------------------- GET.start: the session's setup -------------------- *)
Range(f) == {f[i] : i \in 1..Len(f)}
HasHandler(c, s) == s \in Range(handlers[c])
UnlistenQuery(s, t) == [q |-> "UNLISTEN", s |-> s, t |-> t]
ListenQuery(s) == [q |-> "LISTEN", s |-> s, t |-> "start"]

\* cleanup() up to its await: if (client) { await client.query("UNLISTEN ...") }
BeginCleanup(s, t) ==
  IF client[s] # 0
  THEN /\ qq' = [qq EXCEPT ![client[s]] = Append(@, UnlistenQuery(s, t))]
       /\ cl' = [cl EXCEPT ![s][t] = "unlisten"]
       /\ unlistenCalls' = [unlistenCalls EXCEPT ![s] = @ + 1]
  ELSE /\ cl' = [cl EXCEPT ![s][t] = "done"]
       /\ UNCHANGED <<qq, unlistenCalls>>

\* new ReadableStream({ start }) up to await getSsePool().connect();
\* getSsePool() throws when DATABASE_URL is missing: the catch block runs at once
Start(s) ==
  /\ pc[s] = "idle"
  /\ s <= cfg.sessions
  /\ \A r \in Sessions : r < s => pc[r] # "idle"
  /\ Cardinality({r \in Sessions : pc[r] \in {"acquiring", "listening", "listened"}})
        < cfg.setups
  /\ IF dbUrl
     THEN /\ pc' = [pc EXCEPT ![s] = "acquiring"]
          /\ UNCHANGED <<out, ctrl, cl>>
     ELSE /\ pc' = [pc EXCEPT ![s] = "done"]
          /\ out' = [out EXCEPT ![s] = Enqueue(@, ctrl[s], EvError)]
          /\ ctrl' = [ctrl EXCEPT ![s] = CloseCtrl(@)]
          /\ cl' = [cl EXCEPT ![s]["catch"] = "done"]
  /\ UNCHANGED <<rtVars, pollVars>>
  /\ UNCHANGED <<cfg, dbUrl, client, acquired, isControllerClosed, hb, aborted, abortAt,
                 unlistenCalls, releaseCalls, conn, broken, dbListen, inbox,
                 handlers, qq, pubLog, listenAt, dlv, ticks, fails, events>>

\* pool.connect() may hand out a connection: an idle one, or a new one while
\* fewer than max exist
CanAcquire(c) ==
  \/ conn[c] = "idle"
  \/ IdleConns = {} /\ LiveCount < PoolMax /\ conn[c] = "none" /\ c = NewConn

\* client = await getSsePool().connect(); then client.query("LISTEN ...")
AcquireOk(s) ==
  /\ pc[s] = "acquiring"
  /\ \E c \in Conns :
       /\ CanAcquire(c)
       /\ conn' = [conn EXCEPT ![c] = "held"]
       /\ client' = [client EXCEPT ![s] = c]
       /\ acquired' = [acquired EXCEPT ![s] = c]
       /\ qq' = [qq EXCEPT ![c] = Append(@, ListenQuery(s))]
  /\ pc' = [pc EXCEPT ![s] = "listening"]
  /\ UNCHANGED <<rtVars, pollVars>>
  /\ UNCHANGED <<cfg, dbUrl, isControllerClosed, ctrl, out, hb, aborted, abortAt, cl,
                 unlistenCalls, releaseCalls, broken, dbListen, inbox, handlers,
                 pubLog, listenAt, dlv, ticks, fails, events>>

\* a catch block that reports the error and leaves the stream open
AcquireFailLeavesOpen(s) ==
  /\ pc[s] = "acquiring"
  /\ IdleConns = {}
  /\ IF LiveCount >= PoolMax
     THEN UNCHANGED <<fails, events>>
     ELSE fails < cfg.fails /\ fails' = fails + 1 /\ Disturb
  /\ pc' = [pc EXCEPT ![s] = "done"]
  /\ out' = [out EXCEPT ![s] = Enqueue(@, ctrl[s], EvError)]
  /\ cl' = [cl EXCEPT ![s]["catch"] = "done"]
  /\ UNCHANGED <<rtVars, pollVars>>
  /\ UNCHANGED <<cfg, dbUrl, client, acquired, isControllerClosed, ctrl, hb, aborted, abortAt,
                 unlistenCalls, releaseCalls, conn, broken, dbListen, inbox,
                 handlers, qq, pubLog, listenAt, dlv, ticks>>

\* pool.connect() rejects: no connection within connectionTimeoutMillis while
\* max are checked out, or the new connection cannot be made (a failure of the
\* run); the catch block runs and cleanup() finds client null
AcquireFail(s) ==
  /\ pc[s] = "acquiring"
  /\ IdleConns = {}
  /\ IF LiveCount >= PoolMax
     THEN UNCHANGED <<fails, events>>
     ELSE fails < cfg.fails /\ fails' = fails + 1 /\ Disturb
  /\ pc' = [pc EXCEPT ![s] = "done"]
  /\ out' = [out EXCEPT ![s] = Enqueue(@, ctrl[s], EvError)]
  /\ ctrl' = [ctrl EXCEPT ![s] = CloseCtrl(@)]
  /\ cl' = [cl EXCEPT ![s]["catch"] = "done"]
  /\ UNCHANGED <<rtVars, pollVars>>
  /\ UNCHANGED <<cfg, dbUrl, client, acquired, isControllerClosed, hb, aborted, abortAt,
                 unlistenCalls, releaseCalls, conn, broken, dbListen, inbox,
                 handlers, qq, pubLog, listenAt, dlv, ticks>>

\* a query on a broken or removed connection rejects; on a healthy one the
\* database may still reject it (counted as a failure of the run)
QueryMayFail(c) ==
  IF Live(c) /\ ~broken[c]
  THEN fails < cfg.fails /\ fails' = fails + 1 /\ Disturb
  ELSE fails' = fails /\ events' = events

\* the database executes the LISTEN at the head of the connection's queue: the
\* subscription takes effect; the query stays at the head until its response
\* has reached the session (responses come back in order)
ListenOk(c) ==
  /\ qq[c] # <<>> /\ Head(qq[c]).q = "LISTEN"
  /\ pc[Head(qq[c]).s] = "listening"
  /\ Live(c) /\ ~broken[c]
  /\ LET s == Head(qq[c]).s IN
       /\ pc' = [pc EXCEPT ![s] = "listened"]
       /\ listenAt' = [listenAt EXCEPT ![s] = Len(pubLog)]
  /\ dbListen' = [dbListen EXCEPT ![c] = TRUE]
  /\ UNCHANGED <<rtVars, pollVars>>
  /\ UNCHANGED <<cfg, dbUrl, client, acquired, isControllerClosed, ctrl, out, hb,
                 aborted, abortAt, cl, unlistenCalls, releaseCalls, conn, broken, inbox,
                 handlers, qq, pubLog, dlv, ticks, fails, events>>

\* a LISTEN failure path that releases but keeps the client reference: the
\* catch block's cleanup() releases the connection a second time
ListenFailKeepsClient(c) ==
  /\ qq[c] # <<>> /\ Head(qq[c]).q = "LISTEN"
  /\ pc[Head(qq[c]).s] = "listening" \/ broken[c]
  /\ QueryMayFail(c)
  /\ LET s == Head(qq[c]).s IN
       /\ releaseCalls' = [releaseCalls EXCEPT ![s] = @ + 2]
       /\ conn' = ReleaseConn(conn, c)
       /\ pc' = [pc EXCEPT ![s] = "done"]
       /\ out' = [out EXCEPT ![s] = Enqueue(@, ctrl[s], EvError)]
       /\ ctrl' = [ctrl EXCEPT ![s] = CloseCtrl(@)]
       /\ cl' = [cl EXCEPT ![s]["catch"] = "done"]
  /\ qq' = [qq EXCEPT ![c] = Tail(@)]
  /\ UNCHANGED <<rtVars, pollVars>>
  /\ UNCHANGED <<cfg, dbUrl, client, acquired, isControllerClosed, hb, aborted, abortAt,
                 unlistenCalls, broken, dbListen, inbox, handlers, pubLog,
                 listenAt, dlv, ticks>>

\* await client.query("LISTEN ...") rejects (the database rejects it, or the
\* connection breaks before the response arrives): release, client = null,
\* rethrow; the catch block enqueues the error event, cleanup() is a no-op,
\* close()
ListenFail(c) ==
  /\ qq[c] # <<>> /\ Head(qq[c]).q = "LISTEN"
  /\ pc[Head(qq[c]).s] = "listening" \/ broken[c]
  /\ QueryMayFail(c)
  /\ LET s == Head(qq[c]).s IN
       /\ releaseCalls' = [releaseCalls EXCEPT ![s] = @ + 1]
       /\ conn' = ReleaseConn(conn, c)
       /\ client' = [client EXCEPT ![s] = 0]
       /\ pc' = [pc EXCEPT ![s] = "done"]
       /\ out' = [out EXCEPT ![s] = Enqueue(@, ctrl[s], EvError)]
       /\ ctrl' = [ctrl EXCEPT ![s] = CloseCtrl(@)]
       /\ cl' = [cl EXCEPT ![s]["catch"] = "done"]
  /\ qq' = [qq EXCEPT ![c] = Tail(@)]
  /\ UNCHANGED <<rtVars, pollVars>>
  /\ UNCHANGED <<cfg, dbUrl, acquired, isControllerClosed, hb, aborted, abortAt,
                 unlistenCalls, broken, dbListen, inbox, handlers, pubLog,
                 listenAt, dlv, ticks>>

\* the LISTEN's response arrives and start() resumes: enqueue connected,
\* register the notification handler, start the heartbeat, register error and
\* end handlers. enqueue on a stream that is no longer open throws: the catch
\* block runs with client set, so cleanup() issues UNLISTEN
ResumeAfterListen(s) ==
  /\ pc[s] = "listened"
  /\ ~broken[client[s]]
  /\ IF ctrl[s] = "open"
     THEN /\ out' = [out EXCEPT ![s] = Append(@, EvConnected)]
          /\ handlers' = [handlers EXCEPT ![client[s]] = Append(@, s)]
          /\ hb' = [hb EXCEPT ![s] = "running"]
          /\ pc' = [pc EXCEPT ![s] = "subscribed"]
          /\ qq' = [qq EXCEPT ![client[s]] = Tail(@)]
          /\ UNCHANGED <<cl, unlistenCalls>>
     ELSE /\ pc' = [pc EXCEPT ![s] = "catch"]
          /\ qq' = [qq EXCEPT ![client[s]] = Append(Tail(@), UnlistenQuery(s, "catch"))]
          /\ cl' = [cl EXCEPT ![s]["catch"] = "unlisten"]
          /\ unlistenCalls' = [unlistenCalls EXCEPT ![s] = @ + 1]
          /\ UNCHANGED <<out, handlers, hb>>
  /\ UNCHANGED <<rtVars, pollVars>>
  /\ UNCHANGED <<cfg, dbUrl, client, acquired, isControllerClosed, ctrl, aborted, abortAt,
                 releaseCalls, conn, broken, dbListen, inbox, pubLog, listenAt,
                 dlv, ticks, fails, events>>

(* ------------------------------ teardown ------------------------------- *)
\* request.signal "abort": isControllerClosed = true; await cleanup()
Abort(s) ==
  /\ pc[s] # "idle"
  /\ ~aborted[s]
  /\ Disturb
  /\ aborted' = [aborted EXCEPT ![s] = TRUE]
  /\ abortAt' = IF ~cfg.history THEN abortAt
                ELSE [abortAt EXCEPT ![s] =
                        IF pc[s] = "subscribed" THEN "subscribed" ELSE "setup"]
  /\ isControllerClosed' = [isControllerClosed EXCEPT ![s] = TRUE]
  /\ BeginCleanup(s, "abort")
  /\ UNCHANGED <<rtVars, pollVars>>
  /\ UNCHANGED <<cfg, dbUrl, pc, client, acquired, ctrl, out, hb, releaseCalls,
                 conn, broken, dbListen, inbox, handlers, pubLog, listenAt, dlv,
                 ticks, fails>>

\* the runtime cancels the response stream of a client that has gone away;
\* from then on controller.enqueue and controller.close throw
Cancel(s) ==
  /\ aborted[s]
  /\ ctrl[s] = "open"
  /\ ctrl' = [ctrl EXCEPT ![s] = "cancelled"]
  /\ UNCHANGED <<rtVars, pollVars>>
  /\ UNCHANGED <<cfg, dbUrl, pc, client, acquired, isControllerClosed, out, hb,
                 aborted, abortAt, cl, unlistenCalls, releaseCalls, conn, broken, dbListen,
                 inbox, handlers, qq, pubLog, listenAt, dlv, ticks, fails, events>>

\* a teardown whose callers never close the controller
FinishCleanupLeavesOpen(s, t) ==
  /\ cl' = [cl EXCEPT ![s][t] = "done"]
  /\ IF client[s] # 0
     THEN /\ releaseCalls' = [releaseCalls EXCEPT ![s] = @ + 1]
          /\ conn' = ReleaseConn(conn, client[s])
     ELSE UNCHANGED <<releaseCalls, conn>>
  /\ ctrl' = ctrl
  /\ pc' = IF t = "catch" THEN [pc EXCEPT ![s] = "done"] ELSE pc

\* cleanup() after its await: finally { client.release() } reads client again
\* (null after a failed LISTEN: the TypeError is caught); then the caller goes
\* on: the error handler and the catch block close the controller
FinishCleanup(s, t) ==
  /\ cl' = [cl EXCEPT ![s][t] = "done"]
  /\ IF client[s] # 0
     THEN /\ releaseCalls' = [releaseCalls EXCEPT ![s] = @ + 1]
          /\ conn' = ReleaseConn(conn, client[s])
     ELSE UNCHANGED <<releaseCalls, conn>>
  /\ ctrl' = IF t = "abort" THEN ctrl ELSE [ctrl EXCEPT ![s] = CloseCtrl(@)]
  /\ pc' = IF t = "catch" THEN [pc EXCEPT ![s] = "done"] ELSE pc

\* the database executes the UNLISTEN at the head of the connection's queue
UnlistenOk(c) ==
  /\ qq[c] # <<>> /\ Head(qq[c]).q = "UNLISTEN"
  /\ Live(c) /\ ~broken[c]
  /\ FinishCleanup(Head(qq[c]).s, Head(qq[c]).t)
  /\ qq' = [qq EXCEPT ![c] = Tail(@)]
  /\ dbListen' = [dbListen EXCEPT ![c] = FALSE]
  /\ UNCHANGED <<rtVars, pollVars>>
  /\ UNCHANGED <<cfg, dbUrl, client, acquired, isControllerClosed, out, hb,
                 aborted, abortAt, unlistenCalls, broken, inbox, handlers, pubLog,
                 listenAt, dlv, ticks, fails, events>>

\* an UNLISTEN whose rejection escapes cleanup(): the release and the rest of
\* the caller are skipped
UnlistenFailEscapes(c) ==
  /\ qq[c] # <<>> /\ Head(qq[c]).q = "UNLISTEN"
  /\ QueryMayFail(c)
  /\ cl' = [cl EXCEPT ![Head(qq[c]).s][Head(qq[c]).t] = "done"]
  /\ qq' = [qq EXCEPT ![c] = Tail(@)]
  /\ UNCHANGED <<rtVars, pollVars>>
  /\ UNCHANGED <<cfg, dbUrl, pc, client, acquired, isControllerClosed, ctrl, out, hb,
                 aborted, abortAt, unlistenCalls, releaseCalls, conn, broken, dbListen,
                 inbox, handlers, pubLog, listenAt, dlv, ticks>>

\* the UNLISTEN rejects: .catch(() => {}) swallows it, finally still releases
UnlistenFail(c) ==
  /\ qq[c] # <<>> /\ Head(qq[c]).q = "UNLISTEN"
  /\ QueryMayFail(c)
  /\ FinishCleanup(Head(qq[c]).s, Head(qq[c]).t)
  /\ qq' = [qq EXCEPT ![c] = Tail(@)]
  /\ UNCHANGED <<rtVars, pollVars>>
  /\ UNCHANGED <<cfg, dbUrl, client, acquired, isControllerClosed, out, hb,
                 aborted, abortAt, unlistenCalls, broken, dbListen, inbox, handlers,
                 pubLog, listenAt, dlv, ticks>>

\* client.on("error"): every session registered on the connection runs its
\* handler up to await cleanup(): clearInterval, isControllerClosed = true
ConnError(c) ==
  /\ Live(c) /\ ~broken[c]
  /\ fails < cfg.fails
  /\ fails' = fails + 1
  /\ Disturb
  /\ broken' = [broken EXCEPT ![c] = TRUE]
  /\ conn' = [conn EXCEPT ![c] = IF @ = "idle" THEN "gone" ELSE @]
  /\ dbListen' = [dbListen EXCEPT ![c] = FALSE]
  /\ inbox' = [inbox EXCEPT ![c] = <<>>]
  /\ hb' = [s \in Sessions |-> IF HasHandler(c, s) THEN "cleared" ELSE hb[s]]
  /\ isControllerClosed' =
       [s \in Sessions |-> IF HasHandler(c, s) THEN TRUE ELSE isControllerClosed[s]]
  /\ cl' = [s \in Sessions |->
              IF HasHandler(c, s) THEN [cl[s] EXCEPT !["error"] = "unlisten"] ELSE cl[s]]
  /\ unlistenCalls' =
       [s \in Sessions |-> IF HasHandler(c, s) THEN unlistenCalls[s] + 1 ELSE unlistenCalls[s]]
  /\ qq' = [qq EXCEPT ![c] =
              @ \o [i \in 1..Len(handlers[c]) |-> UnlistenQuery(handlers[c][i], "error")]]
  /\ UNCHANGED <<rtVars, pollVars>>
  /\ UNCHANGED <<cfg, dbUrl, pc, client, acquired, ctrl, out, aborted, abortAt,
                 releaseCalls, handlers, pubLog, listenAt, dlv, ticks>>

\* client.on("end"): clearInterval, isControllerClosed = true, nothing else
ConnEnd(c) ==
  /\ Live(c) /\ ~broken[c]
  /\ fails < cfg.fails
  /\ fails' = fails + 1
  /\ Disturb
  /\ broken' = [broken EXCEPT ![c] = TRUE]
  /\ conn' = [conn EXCEPT ![c] = IF @ = "idle" THEN "gone" ELSE @]
  /\ dbListen' = [dbListen EXCEPT ![c] = FALSE]
  /\ inbox' = [inbox EXCEPT ![c] = <<>>]
  /\ hb' = [s \in Sessions |-> IF HasHandler(c, s) THEN "cleared" ELSE hb[s]]
  /\ isControllerClosed' =
       [s \in Sessions |-> IF HasHandler(c, s) THEN TRUE ELSE isControllerClosed[s]]
  /\ UNCHANGED <<rtVars, pollVars>>
  /\ UNCHANGED <<cfg, dbUrl, pc, client, acquired, ctrl, out, aborted, abortAt, cl,
                 unlistenCalls, releaseCalls, handlers, qq, pubLog, listenAt,
                 dlv, ticks>>

(* ----------------------- relay and heartbeat --------------------------- *)
\* some writer's trigger runs pg_notify: every subscribed connection gets it
Publish(p) ==
  /\ p \in cfg.payloads
  /\ Len(pubLog) < cfg.pubs
  /\ Disturb
  /\ pubLog' = Append(pubLog, p)
  /\ inbox' = [c \in Conns |->
                 IF dbListen[c] /\ Live(c) /\ ~broken[c] THEN Append(inbox[c], p)
                 ELSE inbox[c]]
  /\ UNCHANGED <<rtVars, pollVars>>
  /\ UNCHANGED <<cfg, dbUrl, pc, client, acquired, isControllerClosed, ctrl, out,
                 hb, aborted, abortAt, cl, unlistenCalls, releaseCalls, conn, broken,
                 dbListen, handlers, qq, listenAt, dlv, ticks, fails>>

\* a handler that relays inserts and updates only
NotificationHandlerLossy(s, p) ==
  IF isControllerClosed[s] \/ ParseThrows(p) \/ p.op = "DELETE" THEN out[s]
  ELSE Enqueue(out[s], ctrl[s], FrameUpdate(ParsePayload(p)))

\* a handler that frames whatever it is given, parseable or not
NotificationHandlerNoCatch(s, p) ==
  IF isControllerClosed[s] THEN out[s]
  ELSE Enqueue(out[s], ctrl[s], FrameUpdate(ParsePayload(p)))

\* client.on("notification"): the handler of one session on one message
NotificationHandler(s, p) ==
  IF isControllerClosed[s] THEN out[s]
  ELSE IF ParseThrows(p) THEN out[s]
  ELSE Enqueue(out[s], ctrl[s], FrameUpdate(ParsePayload(p)))

\* the connection emits "notification": every registered handler runs
Deliver(c) ==
  /\ inbox[c] # <<>>
  /\ inbox' = [inbox EXCEPT ![c] = Tail(@)]
  /\ out' = [s \in Sessions |->
               IF HasHandler(c, s) THEN NotificationHandler(s, Head(inbox[c]))
               ELSE out[s]]
  /\ dlv' = [s \in Sessions |->
               IF HasHandler(c, s) THEN Append(dlv[s], Head(inbox[c])) ELSE dlv[s]]
  /\ UNCHANGED <<rtVars, pollVars>>
  /\ UNCHANGED <<cfg, dbUrl, pc, client, acquired, isControllerClosed, ctrl, hb,
                 aborted, abortAt, cl, unlistenCalls, releaseCalls, conn, broken, dbListen,
                 handlers, qq, pubLog, listenAt, ticks, fails, events>>

\* the setInterval callback: clear itself when the flag is set or enqueue throws
HeartbeatTick(s) ==
  /\ hb[s] = "running"
  /\ IF isControllerClosed[s] \/ ctrl[s] # "open"
     THEN /\ hb' = [hb EXCEPT ![s] = "cleared"]
          /\ UNCHANGED <<out, ticks, events>>
     ELSE /\ ticks < cfg.ticks
          /\ Disturb
          /\ out' = [out EXCEPT ![s] = Append(@, EvHeartbeat)]
          /\ ticks' = ticks + 1
          /\ UNCHANGED hb
  /\ UNCHANGED <<rtVars, pollVars>>
  /\ UNCHANGED <<cfg, dbUrl, pc, client, acquired, isControllerClosed, ctrl,
                 aborted, abortAt, cl, unlistenCalls, releaseCalls, conn, broken, dbListen,
                 inbox, handlers, qq, pubLog, listenAt, dlv, fails>>

NextSrv ==
  \/ \E s \in Sessions : Start(s)
  \/ \E s \in Sessions : AcquireOk(s)
  \/ \E s \in Sessions : AcquireFail(s)
  \/ \E c \in Conns : ListenOk(c)
  \/ \E c \in Conns : ListenFail(c)
  \/ \E s \in Sessions : ResumeAfterListen(s)
  \/ \E s \in Sessions : Abort(s)
  \/ \E s \in Sessions : Cancel(s)
  \/ \E c \in Conns : UnlistenOk(c)
  \/ \E c \in Conns : UnlistenFail(c)
  \/ \E c \in Conns : ConnError(c)
  \/ \E c \in Conns : ConnEnd(c)
  \/ \E p \in Payloads : Publish(p)
  \/ \E c \in Conns : Deliver(c)
  \/ \E s \in Sessions : HeartbeatTick(s)


(* ============== useRealtimeInventory: the stream consumer ============== *)
ESIds == 1..MaxES
\* one reconnect timer per stream error: at most as many as EventSources
TimerIds == 1..MaxES
ReadIds == 1..MaxReads
\* what JSON.parse(event.data).type can be; "garbage" is data that is not JSON
MessageTypes == {"connected", "inventory_update", "heartbeat", "error", "garbage"}
\* fields of the event payload besides its type
MessageIds == {1, 2}

InitRT ==
  /\ rtPhase = "init"
  /\ rtEnabled \in BOOLEAN
  /\ initialItems = 0
  /\ changedAt = 0
  /\ items = initialItems
  /\ isConnected = FALSE
  /\ eventSourceRef = 0
  /\ es = [i \in ESIds |-> "none"]
  /\ reconnectTimeoutRef = 0
  /\ timers = [i \in TimerIds |-> "none"]
  /\ reads = 0
  /\ readFlight = {}
  /\ readOk = {}
  /\ updatesSeen = 0

NewES == CHOOSE i \in ESIds : es[i] = "none" /\ \A j \in ESIds : es[j] = "none" => i <= j
NewTimer ==
  CHOOSE i \in TimerIds : timers[i] = "none" /\ \A j \in TimerIds : timers[j] = "none" => i <= j
PendingTimers == {i \in TimerIds : timers[i] = "pending"}
OpenES == {i \in ESIds : es[i] \in {"connecting", "open"}}
CanCreateES == \E i \in ESIds : es[i] = "none"

\* eventSourceRef.current.close() of disconnect()
ClosedES == IF eventSourceRef # 0 THEN [es EXCEPT ![eventSourceRef] = "closed"] ELSE es

\* clearTimeout(reconnectTimeoutRef.current)
ClearedTimers ==
  IF reconnectTimeoutRef # 0 /\ timers[reconnectTimeoutRef] = "pending"
  THEN [timers EXCEPT ![reconnectTimeoutRef] = "cleared"] ELSE timers

\* connect(): if (!enabled || eventSourceRef.current) return; new EventSource
Connect(en) ==
  IF ~en \/ eventSourceRef # 0
  THEN UNCHANGED <<es, eventSourceRef>>
  ELSE /\ es' = [es EXCEPT ![NewES] = "connecting"]
       /\ eventSourceRef' = NewES

\* a disconnect() that leaves the connected flag as it is
DisconnectKeepsFlag ==
  /\ es' = ClosedES
  /\ eventSourceRef' = 0
  /\ timers' = ClearedTimers
  /\ reconnectTimeoutRef' = 0
  /\ isConnected' = isConnected

\* disconnect(): close the EventSource, clear the reconnect timer, connected = false
Disconnect ==
  /\ es' = ClosedES
  /\ eventSourceRef' = 0
  /\ timers' = ClearedTimers
  /\ reconnectTimeoutRef' = 0
  /\ isConnected' = FALSE

\* the mount effect: connect()
RtMount ==
  /\ rtPhase = "init"
  /\ rtPhase' = "live"
  /\ Connect(rtEnabled)
  /\ UNCHANGED <<rtEnabled, initialItems, changedAt, items, isConnected, reconnectTimeoutRef, timers, reads,
                 readFlight, readOk, updatesSeen>>
  /\ UNCHANGED <<srvVars, pollVars>>

\* the effect runs again (its dependencies connect, disconnect changed: the
\* enabled option or the onUpdate callback): disconnect(), then connect()
RtRerun(en) ==
  /\ rtPhase = "live"
  /\ ~en \/ CanCreateES
  /\ rtEnabled' = en
  /\ timers' = ClearedTimers
  /\ reconnectTimeoutRef' = 0
  /\ isConnected' = FALSE
  /\ IF en
     THEN /\ es' = [ClosedES EXCEPT ![NewES] = "connecting"]
          /\ eventSourceRef' = NewES
     ELSE /\ es' = ClosedES
          /\ eventSourceRef' = 0
  /\ UNCHANGED <<rtPhase, initialItems, changedAt, items, reads, readFlight, readOk,
                 updatesSeen>>
  /\ UNCHANGED <<srvVars, pollVars>>

\* unmount, the effect's cleanup: disconnect()
RtUnmount ==
  /\ rtPhase = "live"
  /\ rtPhase' = "unmounted"
  /\ Disconnect
  /\ UNCHANGED <<rtEnabled, initialItems, changedAt, items, reads, readFlight, readOk, updatesSeen>>
  /\ UNCHANGED <<srvVars, pollVars>>

\* eventSource.onopen: connected = true, clear the pending reconnect timeout
EsOpen(i) ==
  /\ es[i] = "connecting"
  /\ es' = [es EXCEPT ![i] = "open"]
  /\ isConnected' = TRUE
  /\ timers' = ClearedTimers
  /\ reconnectTimeoutRef' = 0
  /\ UNCHANGED <<rtPhase, rtEnabled, initialItems, changedAt, items, eventSourceRef, reads, readFlight, readOk,
                 updatesSeen>>
  /\ UNCHANGED <<srvVars, pollVars>>

\* eventSource.onmessage: only message.type is read; inventory_update calls
\* refetch(), which starts a read of /api/inventory
EsMessage(i, type, id) ==
  /\ es[i] = "open"
  /\ IF type = "inventory_update"
     THEN /\ reads < MaxReads
          /\ reads' = reads + 1
          /\ readFlight' = readFlight \cup {reads + 1}
          /\ updatesSeen' = updatesSeen + 1
          /\ UNCHANGED isConnected
     ELSE /\ isConnected' = IF type = "connected" THEN TRUE ELSE isConnected
          /\ UNCHANGED <<reads, readFlight, updatesSeen>>
  /\ UNCHANGED <<rtPhase, rtEnabled, initialItems, changedAt, items, eventSourceRef, es, reconnectTimeoutRef, timers, readOk>>
  /\ UNCHANGED <<srvVars, pollVars>>

\* an onerror that leaves eventSourceRef.current pointing at the closed stream
EsErrorKeepsRef(i) ==
  /\ es[i] \in {"connecting", "open"}
  /\ \E t \in TimerIds : timers[t] = "none"
  /\ isConnected' = FALSE
  /\ es' = [es EXCEPT ![i] = "closed"]
  /\ timers' = [timers EXCEPT ![NewTimer] = "pending"]
  /\ reconnectTimeoutRef' = NewTimer
  /\ UNCHANGED <<rtPhase, rtEnabled, initialItems, changedAt, items, eventSourceRef, reads, readFlight, readOk, updatesSeen>>
  /\ UNCHANGED <<srvVars, pollVars>>

\* eventSource.onerror: connected = false, close, ref = null, schedule connect()
EsError(i) ==
  /\ es[i] \in {"connecting", "open"}
  /\ \E t \in TimerIds : timers[t] = "none"
  /\ isConnected' = FALSE
  /\ es' = [es EXCEPT ![i] = "closed"]
  /\ eventSourceRef' = 0
  /\ timers' = [timers EXCEPT ![NewTimer] = "pending"]
  /\ reconnectTimeoutRef' = NewTimer
  /\ UNCHANGED <<rtPhase, rtEnabled, initialItems, changedAt, items, reads, readFlight, readOk, updatesSeen>>
  /\ UNCHANGED <<srvVars, pollVars>>

\* the reconnect timeout expires: connect(), the callback of the render that
\* created the failed EventSource, so its enabled is true
ReconnectTimer(t) ==
  /\ timers[t] = "pending"
  /\ eventSourceRef # 0 \/ CanCreateES
  /\ timers' = [timers EXCEPT ![t] = "fired"]
  /\ Connect(TRUE)
  /\ UNCHANGED <<rtPhase, rtEnabled, initialItems, changedAt, items, isConnected, reconnectTimeoutRef, reads, readFlight,
                 readOk, updatesSeen>>
  /\ UNCHANGED <<srvVars, pollVars>>

\* refetch() after await fetch(): response.ok, setItems(data.items || data);
\* the k-th read carries the k-th value of the read endpoint. A state update
\* of an unmounted component is dropped.
ReadOk(k) ==
  /\ k \in readFlight
  /\ readFlight' = readFlight \ {k}
  /\ readOk' = readOk \cup {k}
  /\ items' = IF rtPhase = "live" THEN k ELSE items
  /\ UNCHANGED <<rtPhase, rtEnabled, initialItems, changedAt, isConnected, eventSourceRef, es, reconnectTimeoutRef, timers,
                 reads, updatesSeen>>
  /\ UNCHANGED <<srvVars, pollVars>>

\* the read fails or answers !response.ok: logged, nothing changes
ReadFail(k) ==
  /\ k \in readFlight
  /\ readFlight' = readFlight \ {k}
  /\ UNCHANGED <<rtPhase, rtEnabled, initialItems, changedAt, items, isConnected, eventSourceRef, es, reconnectTimeoutRef,
                 timers, reads, readOk, updatesSeen>>
  /\ UNCHANGED <<srvVars, pollVars>>

(* --------- the returned disconnect / reconnect, the initialItems input --------- *)
\* the component calls the returned disconnect()
RtDisconnect ==
  /\ rtPhase = "live"
  /\ Disconnect
  /\ UNCHANGED <<rtPhase, rtEnabled, initialItems, changedAt, items, reads, readFlight,
                 readOk, updatesSeen>>
  /\ UNCHANGED <<srvVars, pollVars>>

\* the component calls the returned reconnect, which is connect() of the
\* current render
RtReconnect ==
  /\ rtPhase = "live"
  /\ ~rtEnabled \/ eventSourceRef # 0 \/ CanCreateES
  /\ Connect(rtEnabled)
  /\ UNCHANGED <<rtPhase, rtEnabled, initialItems, changedAt, items, isConnected,
                 reconnectTimeoutRef, timers, reads, readFlight, readOk, updatesSeen>>
  /\ UNCHANGED <<srvVars, pollVars>>

\* the parent renders with a new initialItems value: the effect runs
\* setItems(initialItems)
RtInitialItems ==
  /\ rtPhase = "live"
  /\ initialItems > 0 - MaxProps
  /\ initialItems' = initialItems - 1
  /\ items' = initialItems - 1
  /\ changedAt' = reads
  /\ UNCHANGED <<rtPhase, rtEnabled, isConnected, eventSourceRef, es, reconnectTimeoutRef,
                 timers, reads, readFlight, readOk, updatesSeen>>
  /\ UNCHANGED <<srvVars, pollVars>>

NextRT ==
  \/ RtMount
  \/ \E en \in BOOLEAN : RtRerun(en)
  \/ RtUnmount
  \/ \E i \in ESIds : EsOpen(i)
  \/ \E i \in ESIds, type \in MessageTypes, id \in MessageIds : EsMessage(i, type, id)
  \/ \E i \in ESIds : EsError(i)
  \/ \E t \in TimerIds : ReconnectTimer(t)
  \/ \E k \in ReadIds : ReadOk(k)
  \/ \E k \in ReadIds : ReadFail(k)

(* ================== usePolling: the polling consumer =================== *)
FetchIds == 1..MaxFetch
IntervalIds == 1..MaxFetch

InitPoll ==
  /\ pPhase = "init"
  /\ isMountedRef = TRUE
  /\ enabled \in BOOLEAN
  /\ isPolling = enabled
  /\ data = 0
  /\ isLoading = FALSE
  /\ error = FALSE
  /\ intervalRef = 0
  /\ intervals = [i \in IntervalIds |-> "none"]
  /\ fetches = 0
  /\ fetchFlight = {}
  /\ fetchFailed = {}
  /\ fetchClean = {}
  /\ onErrorCalls = 0
  /\ onUpdateCalls = 0
  /\ lastUpdate = 0

NewInterval ==
  CHOOSE i \in IntervalIds :
    intervals[i] = "none" /\ \A j \in IntervalIds : intervals[j] = "none" => i <= j
CanSchedule == fetches < MaxFetch /\ \E i \in IntervalIds : intervals[i] = "none"

\* refetch() up to await fetchFnRef.current(): setIsLoading(true), setError(null)
StartFetch ==
  /\ fetches < MaxFetch
  /\ fetches' = fetches + 1
  /\ fetchFlight' = fetchFlight \cup {fetches + 1}
  /\ fetchClean' = fetchClean \cup {fetches + 1}
  /\ isLoading' = TRUE
  /\ error' = FALSE

\* a stop that forgets the timer and leaves it scheduled
KeptIntervals == intervals

\* clearInterval(intervalRef.current); intervalRef.current = null
ClearedIntervals ==
  IF intervalRef # 0 THEN [intervals EXCEPT ![intervalRef] = "cleared"] ELSE intervals

\* a polling effect that only schedules the interval: the first fetch waits
\* for the first tick
RunEffectNoImmediateFetch(polling, en) ==
  /\ isMountedRef' = TRUE
  /\ IF polling /\ en
     THEN /\ CanSchedule
          /\ intervals' = [ClearedIntervals EXCEPT ![NewInterval] = "active"]
          /\ intervalRef' = NewInterval
     ELSE /\ intervals' = ClearedIntervals
          /\ intervalRef' = 0
  /\ UNCHANGED <<fetches, fetchFlight, fetchClean, isLoading, error>>

\* the polling effect, its cleanup first when it has run before:
\* isMountedRef = false, clear the interval; then isMountedRef = true and, when
\* polling and enabled, an immediate refetch() and a new interval
RunEffect(polling, en) ==
  /\ isMountedRef' = TRUE
  /\ IF polling /\ en
     THEN /\ CanSchedule
          /\ StartFetch
          /\ intervals' = [ClearedIntervals EXCEPT ![NewInterval] = "active"]
          /\ intervalRef' = NewInterval
     ELSE /\ intervals' = ClearedIntervals
          /\ intervalRef' = 0
          /\ UNCHANGED <<fetches, fetchFlight, fetchClean, isLoading, error>>

\* first commit: the effect runs
PollMount ==
  /\ pPhase = "init"
  /\ pPhase' = "live"
  /\ RunEffect(isPolling, enabled)
  /\ UNCHANGED <<enabled, isPolling, data, fetchFailed, onErrorCalls, onUpdateCalls, lastUpdate>>
  /\ UNCHANGED <<srvVars, rtVars>>

\* the interval fires: refetch(), which returns at once when unmounted
PollTick(i) ==
  /\ intervals[i] = "active"
  /\ IF isMountedRef
     THEN StartFetch
     ELSE UNCHANGED <<fetches, fetchFlight, fetchClean, isLoading, error>>
  /\ UNCHANGED <<pPhase, isMountedRef, enabled, isPolling, data, intervalRef, intervals,
                 fetchFailed, onErrorCalls, onUpdateCalls, lastUpdate>>
  /\ UNCHANGED <<srvVars, rtVars>>

\* a fetch completion that does not look at isMountedRef
PollFetchOkUnguarded(k) ==
  /\ k \in fetchFlight
  /\ fetchFlight' = fetchFlight \ {k}
  /\ fetchClean' = fetchClean \ {k}
  /\ data' = k /\ lastUpdate' = k /\ onUpdateCalls' = onUpdateCalls + 1
  /\ isLoading' = FALSE
  /\ UNCHANGED <<pPhase, isMountedRef, enabled, isPolling, error, intervalRef, intervals,
                 fetches, fetchFailed, onErrorCalls>>
  /\ UNCHANGED <<srvVars, rtVars>>

\* the fetch resolves: setData, setLastUpdate, onUpdate; finally isLoading = false
PollFetchOk(k) ==
  /\ k \in fetchFlight
  /\ fetchFlight' = fetchFlight \ {k}
  /\ fetchClean' = fetchClean \ {k}
  /\ IF isMountedRef
     THEN /\ data' = k /\ lastUpdate' = k /\ onUpdateCalls' = onUpdateCalls + 1
          /\ isLoading' = FALSE
     ELSE UNCHANGED <<data, lastUpdate, onUpdateCalls, isLoading>>
  /\ UNCHANGED <<pPhase, isMountedRef, enabled, isPolling, error, intervalRef, intervals,
                 fetches, fetchFailed, onErrorCalls>>
  /\ UNCHANGED <<srvVars, rtVars>>

\* a refetch() that gives up polling when the fetch rejects
PollFetchFailStops(k) ==
  /\ k \in fetchFlight
  /\ fetchFlight' = fetchFlight \ {k}
  /\ fetchFailed' = fetchFailed \cup {k}
  /\ fetchClean' = {}
  /\ IF isMountedRef
     THEN error' = TRUE /\ onErrorCalls' = onErrorCalls + 1 /\ isLoading' = FALSE
     ELSE UNCHANGED <<error, onErrorCalls, isLoading>>
  /\ intervals' = ClearedIntervals
  /\ intervalRef' = 0
  /\ UNCHANGED <<pPhase, isMountedRef, enabled, isPolling, data, fetches, onUpdateCalls,
                 lastUpdate>>
  /\ UNCHANGED <<srvVars, rtVars>>

\* the fetch rejects: setError, onError; finally isLoading = false
PollFetchFail(k) ==
  /\ k \in fetchFlight
  /\ fetchFlight' = fetchFlight \ {k}
  /\ fetchFailed' = fetchFailed \cup {k}
  /\ fetchClean' = {}
  /\ IF isMountedRef
     THEN error' = TRUE /\ onErrorCalls' = onErrorCalls + 1 /\ isLoading' = FALSE
     ELSE UNCHANGED <<error, onErrorCalls, isLoading>>
  /\ UNCHANGED <<pPhase, isMountedRef, enabled, isPolling, data, intervalRef, intervals,
                 fetches, onUpdateCalls, lastUpdate>>
  /\ UNCHANGED <<srvVars, rtVars>>

\* stopPolling(): setIsPolling(false), clear the interval; the effect re-runs
\* when isPolling changed
PollStop ==
  /\ pPhase = "live"
  /\ isPolling' = FALSE
  /\ IF isPolling
     THEN RunEffect(FALSE, enabled)
     ELSE /\ intervals' = ClearedIntervals
          /\ intervalRef' = 0
          /\ UNCHANGED <<isMountedRef, fetches, fetchFlight, fetchClean, isLoading, error>>
  /\ UNCHANGED <<pPhase, enabled, data, fetchFailed, onErrorCalls, onUpdateCalls, lastUpdate>>
  /\ UNCHANGED <<srvVars, rtVars>>

\* startPolling(): setIsPolling(true); the effect re-runs when isPolling changed
PollStart ==
  /\ pPhase = "live"
  /\ ~isPolling
  /\ isPolling' = TRUE
  /\ RunEffect(TRUE, enabled)
  /\ UNCHANGED <<pPhase, enabled, data, fetchFailed, onErrorCalls, onUpdateCalls, lastUpdate>>
  /\ UNCHANGED <<srvVars, rtVars>>

\* the enabled option changes: the effect re-runs
PollSetEnabled(b) ==
  /\ pPhase = "live"
  /\ b # enabled
  /\ enabled' = b
  /\ RunEffect(isPolling, b)
  /\ UNCHANGED <<pPhase, isPolling, data, fetchFailed, onErrorCalls, onUpdateCalls, lastUpdate>>
  /\ UNCHANGED <<srvVars, rtVars>>

\* unmount: the effect's cleanup: isMountedRef = false, clear the interval
PollUnmount ==
  /\ pPhase = "live"
  /\ pPhase' = "unmounted"
  /\ isMountedRef' = FALSE
  /\ intervals' = ClearedIntervals
  /\ intervalRef' = 0
  /\ UNCHANGED <<enabled, isPolling, data, isLoading, error, fetches, fetchFlight,
                 fetchFailed, fetchClean, onErrorCalls, onUpdateCalls, lastUpdate>>
  /\ UNCHANGED <<srvVars, rtVars>>

\* the component calls the returned refetch(): it returns at once when
\* isMountedRef is false, otherwise it starts a fetch
PollRefetch ==
  /\ pPhase # "init"
  /\ IF isMountedRef
     THEN StartFetch
     ELSE UNCHANGED <<fetches, fetchFlight, fetchClean, isLoading, error>>
  /\ UNCHANGED <<pPhase, isMountedRef, enabled, isPolling, data, intervalRef, intervals,
                 fetchFailed, onErrorCalls, onUpdateCalls, lastUpdate>>
  /\ UNCHANGED <<srvVars, rtVars>>

NextPoll ==
  \/ PollMount
  \/ \E i \in IntervalIds : PollTick(i)
  \/ \E k \in FetchIds : PollFetchOk(k)
  \/ \E k \in FetchIds : PollFetchFail(k)
  \/ PollStop
  \/ PollStart
  \/ \E b \in BOOLEAN : PollSetEnabled(b)
  \/ PollUnmount

(* ========================== specifications ============================ *)
\* one session in full detail: every payload, every teardown trigger;
\* at most MaxPub + MaxTicks disturbances in one run
SessionLimits ==
  [sessions |-> 1, setups |-> 1, pubs |-> MaxPub, ticks |-> MaxTicks,
   fails |-> MaxConnFail, events |-> MaxPub + MaxTicks,
   payloads |-> Payloads, history |-> TRUE]
\* more requests than the pool holds, the requests arriving one at a time
PoolLimits ==
  [sessions |-> NSess, setups |-> 1, pubs |-> MaxEvents, ticks |-> MaxEvents,
   fails |-> MaxEvents, events |-> MaxEvents, payloads |-> {P_insert},
   history |-> FALSE]
\* two requests, one after the other, on a pool that reuses the connection
ReuseLimits ==
  [sessions |-> 2, setups |-> 1, pubs |-> MaxEvents, ticks |-> MaxEvents,
   fails |-> MaxConnFail, events |-> MaxEvents + MaxConnFail, payloads |-> {P_insert},
   history |-> FALSE]
\* no request at all
NoLimits ==
  [sessions |-> 0, setups |-> 0, pubs |-> 0, ticks |-> 0, fails |-> 0, events |-> 0,
   payloads |-> {}, history |-> FALSE]

Init == InitSrv(SessionLimits, BOOLEAN) /\ InitRT /\ InitPoll /\ rtEnabled /\ enabled
InitPool == InitSrv(PoolLimits, BOOLEAN) /\ InitRT /\ InitPoll /\ rtEnabled /\ enabled
InitReuse == InitSrv(ReuseLimits, BOOLEAN) /\ InitRT /\ InitPoll /\ rtEnabled /\ enabled
InitConsumer == InitSrv(NoLimits, {TRUE}) /\ InitRT /\ InitPoll /\ enabled
InitPolling == InitSrv(NoLimits, {TRUE}) /\ InitRT /\ InitPoll /\ rtEnabled

Next == NextSrv
\* the bridge, one session
Spec == Init /\ [][Next]_vars
\* the steps the event loop, the pool, the database and the runtime take by
\* themselves: pending promises settle, expired timers fire, queued
\* notifications are delivered, the stream of a client that went away is
\* cancelled
Fairness ==
  /\ WF_vars(\E s \in Sessions : AcquireOk(s))
  /\ WF_vars(\E s \in Sessions : AcquireFail(s))
  /\ WF_vars(\E c \in Conns : ListenOk(c))
  /\ WF_vars(\E c \in Conns : broken[c] /\ ListenFail(c))
  /\ WF_vars(\E s \in Sessions : ResumeAfterListen(s))
  /\ WF_vars(\E s \in Sessions : Cancel(s))
  /\ WF_vars(\E c \in Conns : UnlistenOk(c))
  /\ WF_vars(\E c \in Conns : broken[c] /\ UnlistenFail(c))
  /\ WF_vars(\E c \in Conns : Deliver(c))
  /\ WF_vars(\E s \in Sessions : isControllerClosed[s] /\ HeartbeatTick(s))
\* the bridge, one session, with the steps that happen by themselves
SpecFair == Init /\ [][Next]_vars /\ Fairness
\* the bridge, two requests on one reused connection
SpecReuse == InitReuse /\ [][Next]_vars
\* the bridge, more requests than the pool holds
SpecPool == InitPool /\ [][Next]_vars
\* the stream consumer
SpecRT == InitConsumer /\ [][NextRT]_vars
\* the stream consumer with a parent that changes initialItems and calls the
\* returned disconnect() and reconnect()
NextRTApi ==
  \/ RtMount
  \/ \E en \in BOOLEAN : RtRerun(en)
  \/ RtUnmount
  \/ \E i \in ESIds : EsOpen(i)
  \/ \E i \in ESIds, type \in MessageTypes, id \in MessageIds : EsMessage(i, type, id)
  \/ \E i \in ESIds : EsError(i)
  \/ \E t \in TimerIds : ReconnectTimer(t)
  \/ \E k \in ReadIds : ReadOk(k)
  \/ \E k \in ReadIds : ReadFail(k)
  \/ RtDisconnect
  \/ RtReconnect
  \/ RtInitialItems
SpecRTApi == InitConsumer /\ [][NextRTApi]_vars
\* the polling consumer
SpecPoll == InitPolling /\ [][NextPoll]_vars
\* the polling consumer with a parent that calls the returned refetch()
NextPollApi ==
  \/ PollMount
  \/ \E i \in IntervalIds : PollTick(i)
  \/ \E k \in FetchIds : PollFetchOk(k)
  \/ \E k \in FetchIds : PollFetchFail(k)
  \/ PollStop
  \/ PollStart
  \/ \E b \in BOOLEAN : PollSetEnabled(b)
  \/ PollUnmount
  \/ PollRefetch
SpecPollApi == InitPolling /\ [][NextPollApi]_vars

(* ======================= properties of the bridge ====================== *)
IsBridgeEvent(e) == e \in {EvConnected, EvHeartbeat, EvError}
\* the events a session relayed from notifications
Relayed(o) == SelectSeq(o, LAMBDA e : ~IsBridgeEvent(e))
UpdatesOf(o) == SelectSeq(o, LAMBDA e : e.type = "inventory_update")
CountType(o, t) == Len(SelectSeq(o, LAMBDA e : e.type = t))
Frames(ps) == [i \in 1..Len(ps) |-> FrameUpdate(ParsePayload(ps[i]))]
AllWellFormed(ps) == \A i \in 1..Len(ps) : WellFormed(ps[i])
Parseable(ps) == SelectSeq(ps, LAMBDA p : ~ParseThrows(p))

\* a teardown trigger (abort, connection error, connection end) has fired
TornDown(s) == isControllerClosed[s]
\* subscribed and no teardown trigger has fired
Healthy(s) == pc[s] = "subscribed" /\ ~TornDown(s)
\* the session's attempt to acquire a connection failed
AcquireFailed(s) == pc[s] = "done" /\ acquired[s] = 0
\* the notifications published since the session's LISTEN took effect
PublishedSinceListen(s) == SubSeq(pubLog, listenAt[s] + 1, Len(pubLog))

\* C1 (as claimed): when both the abort trigger and the connection-error
\* trigger have fired on a session, the session has issued at most one
\* UNLISTEN and at most one release, and exactly one of each once both cleanup
\* bodies have finished.
C1_OneTeardown ==
  \A s \in Sessions :
    (cl[s]["abort"] # "none" /\ cl[s]["error"] # "none" /\ acquired[s] # 0) =>
      /\ unlistenCalls[s] <= 1
      /\ releaseCalls[s] <= 1
      /\ (cl[s]["abort"] = "done" /\ cl[s]["error"] = "done") =>
           (unlistenCalls[s] = 1 /\ releaseCalls[s] = 1)

\* C2 (as claimed): while a session is subscribed and healthy (no teardown
\* trigger has fired) and every notification published since its LISTEN took
\* effect is well-formed and has been delivered, its inventory_update events
\* are exactly those notifications, in order.
C2_NoLossSinceListen ==
  \A s \in Sessions :
    (/\ Healthy(s)
     /\ inbox[client[s]] = <<>>
     /\ AllWellFormed(PublishedSinceListen(s))) =>
      UpdatesOf(out[s]) = Frames(PublishedSinceListen(s))

\* C2 (amended): while a session is healthy and every notification its
\* connection has delivered since the notification handler was registered
\* (right after the connected event) is well-formed, its inventory_update
\* events are exactly those notifications, in delivery order.
C2_NoLossSinceConnected ==
  \A s \in Sessions :
    (Healthy(s) /\ AllWellFormed(dlv[s])) => UpdatesOf(out[s]) = Frames(dlv[s])

C2_Witness ==
  \E s \in Sessions :
    /\ Healthy(s)
    /\ dlv[s] = <<P_delete, P_insert>>
    /\ Len(UpdatesOf(out[s])) = 2

\* C3 (as claimed): once a teardown trigger has fired on a session its
\* heartbeat interval timer is cancelled.
C3_TimerCancelled ==
  \A s \in Sessions : TornDown(s) => hb[s] # "running"

\* C4: a healthy session has relayed exactly the parseable notifications
\* delivered to it, in order (a malformed one produced no event and every
\* later one was still relayed), and it is still subscribed: its connection
\* is checked out, its heartbeat timer runs and its stream is open.
C4_MalformedIsolated ==
  \A s \in Sessions :
    Healthy(s) =>
      /\ Relayed(out[s]) = Frames(Parseable(dlv[s]))
      /\ CountType(out[s], "error") = 0
      /\ client[s] # 0 /\ conn[client[s]] = "held"
      /\ hb[s] = "running"
      /\ ctrl[s] = "open"

C4_Witness ==
  \E s \in Sessions :
    /\ Healthy(s)
    /\ dlv[s] = <<P_malformed, P_insert>>
    /\ Relayed(out[s]) = <<FrameUpdate(ParsePayload(P_insert))>>

(* ====================== properties of the consumers ==================== *)
\* C5 (as claimed): when the mounted consumer has handled two
\* inventory_update events and both reads they started have completed
\* successfully, in whatever order, items holds the result of the second read.
C5_EndsAtLatest ==
  (/\ rtPhase = "live"
   /\ updatesSeen = 2 /\ reads = 2
   /\ readFlight = {} /\ readOk = {1, 2}) => items = 2

Holding == {s \in Sessions : client[s] # 0 /\ releaseCalls[s] = 0}
\* connections the pool has checked out
CheckedOut == {c \in Conns : conn[c] = "held"}

\* C8 (as claimed): at most PoolMax connections are checked out and at most
\* PoolMax sessions hold one; a request whose acquisition failed while its
\* client was still connected got exactly the error event and a closed stream;
\* and every healthy session still has its connection checked out, its
\* handler, its heartbeat and an open stream.
C8_CapacityBound ==
  /\ Cardinality(CheckedOut) <= PoolMax
  /\ Cardinality(Holding) <= PoolMax
  /\ \A s \in Sessions :
       (AcquireFailed(s) /\ ctrl[s] # "cancelled") =>
         (out[s] = <<EvError>> /\ ctrl[s] = "closed")
  /\ \A s \in Sessions :
       Healthy(s) =>
         /\ s \in Holding /\ conn[client[s]] = "held"
         /\ HasHandler(client[s], s)
         /\ hb[s] = "running"
         /\ ctrl[s] = "open"

\* the sessions' side of C8 alone: at most PoolMax sessions hold a connection
C8_SessionsWithinCap == Cardinality(Holding) <= PoolMax

C8_Witness ==
  \E s \in Sessions :
    /\ AcquireFailed(s) /\ out[s] = <<EvError>>
    /\ Cardinality({r \in Sessions : Healthy(r)}) = PoolMax
    /\ Cardinality(CheckedOut) = PoolMax
    /\ \E r \in Sessions : Healthy(r) /\ Len(Relayed(out[r])) = 1

\* C9 (as claimed): a session whose acquisition failed has emitted exactly
\* one error event and nothing else, its stream is closed, it holds no
\* connection and it has made no further attempt.
C9_AcquireFailureTerminal ==
  \A s \in Sessions :
    AcquireFailed(s) =>
      /\ out[s] = <<EvError>>
      /\ ctrl[s] # "open"
      /\ client[s] = 0 /\ hb[s] = "unset"
      /\ unlistenCalls[s] = 0 /\ releaseCalls[s] = 0

\* C9 (amended): a session whose acquisition failed has emitted exactly one
\* error event, or none when the stream had already been cancelled for a
\* client that went away, and nothing else; its stream is closed, it holds no
\* connection and it has made no further attempt.
C9_AcquireFailureTerminalOpen ==
  \A s \in Sessions :
    AcquireFailed(s) =>
      /\ out[s] = IF ctrl[s] = "cancelled" THEN <<>> ELSE <<EvError>>
      /\ ctrl[s] # "open"
      /\ client[s] = 0 /\ hb[s] = "unset"
      /\ unlistenCalls[s] = 0 /\ releaseCalls[s] = 0
      /\ \A c \in Conns : ~HasHandler(c, s)

\* a request rejected by the exhausted pool
C9_Witness ==
  \E s \in Sessions :
    /\ AcquireFailed(s) /\ dbUrl
    /\ Cardinality(CheckedOut) = PoolMax
    /\ out[s] = <<EvError>> /\ ctrl[s] = "closed"
    /\ \A r \in Sessions : r > s => pc[r] = "idle"

\* C10 (as claimed): a session whose LISTEN succeeded and that went on to
\* subscribe has exactly one connected event, and on every session a
\* connected event is the first event of the stream.
C10_ConnectedFirstOnce ==
  \A s \in Sessions :
    /\ pc[s] = "subscribed" => CountType(out[s], "connected") = 1
    /\ \A i \in 1..Len(out[s]) : out[s][i].type = "connected" => i = 1


(* ----------------------------- teardown claims ------------------------- *)
\* the session's abort listener has run to its end, and the signal fired while
\* the session was subscribed
AbortTeardownDone(s) == abortAt[s] = "subscribed" /\ cl[s]["abort"] = "done"

\* C11: when the abort signal fires on a subscribed session, the teardown that
\* follows has stopped the heartbeat timer, attempted UNLISTEN, released the
\* connection and closed the outbound stream controller
C11_AbortTeardownComplete ==
  \A s \in Sessions :
    AbortTeardownDone(s) =>
      /\ hb[s] = "cleared"
      /\ unlistenCalls[s] >= 1
      /\ releaseCalls[s] >= 1
      /\ ctrl[s] = "closed"

\* the abort teardown of a subscribed session is over, the connection is back
\* in the pool, and the timer still runs on a controller nobody closed
C11_Witness ==
  \E s \in Sessions :
    /\ AbortTeardownDone(s)
    /\ unlistenCalls[s] >= 1 /\ releaseCalls[s] >= 1
    /\ hb[s] = "running" /\ ctrl[s] = "open"

\* what a session owns
SessionView(s) ==
  <<pc[s], client[s], acquired[s], ctrl[s], out[s], hb[s], isControllerClosed[s],
    cl[s], unlistenCalls[s], releaseCalls[s]>>

\* C12: a connection error on a subscribed session terminates exactly that
\* session: the timer is cleared at once, the teardown releases the connection
\* and closes the stream, nothing more is emitted on it, the session never
\* acquires or subscribes again, and the sessions whose handler did not run
\* are left as they were
C12_ErrorTerminatesSession ==
  /\ [](\A s \in Sessions :
          /\ cl[s]["error"] # "none" =>
               hb[s] = "cleared" /\ isControllerClosed[s] /\ pc[s] = "subscribed"
          /\ cl[s]["error"] = "done" =>
               releaseCalls[s] >= 1 /\ ctrl[s] # "open" /\ conn[acquired[s]] # "held")
  /\ [][\A s \in Sessions :
          cl[s]["error"] # "none" =>
            /\ out'[s] = out[s]
            /\ pc'[s] = pc[s] /\ client'[s] = client[s] /\ acquired'[s] = acquired[s]
            /\ \A c \in Conns : \A i \in 1..Len(qq'[c]) :
                 qq'[c][i].s = s => qq'[c][i].q # "LISTEN"]_vars
  /\ [][\A s, r \in Sessions :
          (cl[s]["error"] = "none" /\ cl'[s]["error"] # "none"
             /\ cl[r]["error"] = "none" /\ cl'[r]["error"] = "none")
          => SessionView(r)' = SessionView(r)]_vars

\* one subscribed session was torn down by a connection error while another
\* one stays subscribed on its own connection
C12_Witness ==
  \E s, r \in Sessions :
    /\ cl[s]["error"] = "done" /\ ctrl[s] = "closed" /\ hb[s] = "cleared"
    /\ conn[acquired[s]] = "gone"
    /\ r # s /\ pc[r] = "subscribed" /\ cl[r]["error"] = "none"
    /\ hb[r] = "running" /\ ctrl[r] = "open" /\ conn[acquired[r]] = "held"


\* the step in which the UNLISTEN at the head of connection c's queue rejects
UnlistenRejected(c) ==
  /\ qq[c] # <<>> /\ Head(qq[c]).q = "UNLISTEN"
  /\ qq'[c] = Tail(qq[c])
  /\ broken[c] \/ ~Live(c) \/ fails' = fails + 1

\* C13: when the UNLISTEN of a teardown fails (or the release throws), the
\* failure is swallowed: in the same step the release is attempted, the
\* cleanup is over, its caller goes on (the error handler and the catch block
\* close the stream) and no other session is disturbed
C13_UnlistenFailureSwallowed ==
  [][\A c \in Conns :
       UnlistenRejected(c) =>
         LET s == Head(qq[c]).s
             t == Head(qq[c]).t
         IN /\ cl'[s][t] = "done"
            /\ client[s] # 0 => releaseCalls'[s] = releaseCalls[s] + 1
            /\ client[s] # 0 => conn'[client[s]] # "held"
            /\ t # "abort" => ctrl'[s] # "open"
            /\ \A r \in Sessions \ {s} : SessionView(r)' = SessionView(r)]_vars

\* the database rejected the UNLISTEN of an abort teardown on a healthy
\* connection: the connection is back in the pool, still subscribed
C13_Witness ==
  \E s \in Sessions :
    /\ cl[s]["abort"] = "done" /\ unlistenCalls[s] = 1 /\ releaseCalls[s] = 1
    /\ fails = 1 /\ ~broken[acquired[s]]
    /\ conn[acquired[s]] = "idle" /\ dbListen[acquired[s]]


(* ----------------------------- ownership ------------------------------- *)
\* the session the pool has checked connection c out to: the latest one that
\* acquired it (requests set up one at a time, in order), 0 when c is not
\* checked out
Owner(c) ==
  IF conn[c] # "held" \/ {s \in Sessions : acquired[s] = c} = {} THEN 0
  ELSE CHOOSE s \in Sessions :
         /\ acquired[s] = c
         /\ \A r \in Sessions : acquired[r] = c => r <= s

\* a session that is setting up or serving and has not begun any teardown
LiveSession(s) ==
  /\ pc[s] \in {"listening", "listened", "subscribed"}
  /\ ~isControllerClosed[s]
  /\ client[s] # 0

\* no connection is used by two live sessions
C14_NoSharedConnection ==
  \A s, r \in Sessions :
    (s # r /\ LiveSession(s) /\ LiveSession(r)) => client[s] # client[r]

\* no UNLISTEN of one session is in flight on a connection checked out to
\* another session
C14_NoForeignUnlisten ==
  \A c \in Conns : \A i \in 1..Len(qq[c]) :
    (qq[c][i].q = "UNLISTEN" /\ Owner(c) # 0) => qq[c][i].s = Owner(c)

\* C14: at every reachable state no pooled connection is in use by two live
\* sessions, and no session's UNLISTEN is applied to a connection that another
\* session owns
C14_ExclusiveOwnership == C14_NoSharedConnection /\ C14_NoForeignUnlisten


\* the client-disconnect signal or a connection error has fired for session s
TeardownBegun(s) == aborted[s] \/ cl[s]["error"] # "none"

\* the step enqueues no connected, inventory_update or heartbeat event on the
\* stream of session s (the error event of the catch block is not one of them)
Silent(s) ==
  /\ Len(out'[s]) >= Len(out[s])
  /\ \A i \in 1..Len(out'[s]) :
       IF i <= Len(out[s]) THEN out'[s][i] = out[s][i] ELSE out'[s][i] = EvError

\* C15: once the abort signal or a connection error has fired for a session,
\* the session enqueues no further inventory_update, heartbeat or connected
\* event, whatever arrives later
C15_SilentAfterTeardown ==
  [][\A s \in Sessions : TeardownBegun(s) => Silent(s)]_vars


(* ------------------- the stream consumer's returned API ----------------- *)
\* nothing is open, nothing is scheduled, and the flag says so
Stopped == OpenES = {} /\ PendingTimers = {} /\ ~isConnected

\* C16: disconnect() may be called in any state and any number of times;
\* afterwards no EventSource is open, no reconnect timer is pending (so no
\* connection is opened until connect is invoked again), connected is false,
\* and a repeated call changes nothing
C16_IdempotentStop ==
  [][RtDisconnect => (Stopped' /\ (Stopped => rtVars' = rtVars))]_vars

\* C17: a change of initialItems overwrites the snapshot, and the snapshot is
\* never the result of a read that was started before the latest change
C17_ExternalRefreshWins ==
  /\ [][initialItems' # initialItems => items' = initialItems']_vars
  /\ [](items > 0 => items > changedAt)


(* ---------------------- the polling consumer's schedule ----------------- *)
\* the effect's condition: mounted, enabled, polling not stopped
Active == pPhase = "live" /\ isPolling /\ enabled
ActiveIntervals == {i \in IntervalIds : intervals[i] = "active"}
\* exactly the timer intervalRef points at is scheduled
Scheduled == intervalRef # 0 /\ ActiveIntervals = {intervalRef}

C19_IdempotentPollingStop ==
  [][PollStop =>
       /\ ActiveIntervals' = {} /\ intervalRef' = 0 /\ ~isPolling'
       /\ ~isPolling => pollVars' = pollVars
    ]_vars

\* polling ran, a tick started a fetch, and stopPolling() cancelled the timer
C19_Witness ==
  /\ pPhase = "live" /\ enabled /\ ~isPolling
  /\ intervalRef = 0 /\ intervals[1] = "cleared" /\ ActiveIntervals = {}
  /\ fetches = 2

\* polling has been scheduled at some time before
WasScheduled == \E i \in IntervalIds : intervals[i] = "cleared"

\* C20: changing enabled from true to false stops the interval timer, and
\* changing it back to true starts a fetch at once and schedules the interval,
\* whatever startPolling/stopPolling calls came before
C20_EnabledToggle ==
  [][/\ (pPhase = "live" /\ enabled /\ ~enabled') => ActiveIntervals' = {}
     /\ (pPhase = "live" /\ WasScheduled /\ ~enabled /\ enabled') =>
          (fetches' = fetches + 1 /\ Scheduled')
    ]_vars


(* ------------------ the polling consumer after unmount ------------------ *)
\* what the consumer exposes, and its callbacks
PollOutputs == <<data, error, isLoading, lastUpdate, onUpdateCalls, onErrorCalls>>

\* C21: once usePolling is unmounted, a fetch that completes (resolved or
\* rejected) changes none of data, error, isLoading, lastUpdate and calls
\* neither onUpdate nor onError, and refetch() starts no fetch
C21_NoUpdateAfterUnmount ==
  [][pPhase = "unmounted" =>
       /\ PollOutputs' = PollOutputs
       /\ fetches' = fetches
       /\ fetchFlight' \subseteq fetchFlight
    ]_vars

\* two fetches were in flight at unmount; one resolved and one rejected
\* afterwards and nothing was written: isLoading is still true, data and
\* error are still their initial values
C21_Witness ==
  /\ pPhase = "unmounted" /\ ~isMountedRef
  /\ fetches = 2 /\ fetchFlight = {} /\ fetchFailed = {2}
  /\ isLoading /\ data = 0 /\ ~error /\ onUpdateCalls = 0 /\ onErrorCalls = 0


(* ------------------------ the bridge's liveness ------------------------- *)
\* C22: every connection a session acquired is released at least once after
\* the client has disconnected, also when the abort signal fired while the
\* acquisition was pending and cleanup() found no client
C22_NoLeakOnEarlyAbort ==
  \A s \in Sessions :
    (aborted[s] /\ acquired[s] # 0) ~> (releaseCalls[s] >= 1)


\* session s has released the connection it acquired, its handlers are still
\* registered on it, and the pool has checked the connection out to another
\* session
Superseded(s) ==
  /\ acquired[s] # 0
  /\ releaseCalls[s] >= 1
  /\ HasHandler(acquired[s], s)
  /\ Owner(acquired[s]) \notin {0, s}

\* C23: after a session has released its connection and the pool has handed
\* it to a later session, no handler of the earlier session issues UNLISTEN or
\* release on that connection or emits an event
C23_FormerConnectionUntouched ==
  [][\A s \in Sessions :
       Superseded(s) =>
         /\ unlistenCalls'[s] = unlistenCalls[s]
         /\ releaseCalls'[s] = releaseCalls[s]
         /\ out'[s] = out[s]
    ]_vars


\* the connection of subscribed session s has emitted "end" and no "error"
EndFired(s) ==
  /\ pc[s] = "subscribed"
  /\ HasHandler(acquired[s], s)
  /\ broken[acquired[s]]
  /\ cl[s]["error"] = "none"

\* C24: when the subscriber connection emits end, the session eventually
\* releases the connection and its outbound stream is no longer open
C24_EndTerminatesSession ==
  \A s \in Sessions :
    EndFired(s) ~> (releaseCalls[s] >= 1 /\ ctrl[s] # "open")


(* ------------------------- subscribe failure --------------------------- *)
\* the step in which the LISTEN at the head of connection c's queue rejects
\* and the catch block runs to its end
ListenRejected(c) ==
  /\ qq[c] # <<>> /\ Head(qq[c]).q = "LISTEN"
  /\ qq'[c] = Tail(qq[c])
  /\ pc'[Head(qq[c]).s] = "done"

\* the session acquired a connection, its LISTEN was rejected and the client
\* reference is null
ListenFailed(s) == pc[s] = "done" /\ acquired[s] # 0 /\ client[s] = 0

\* C25 (as claimed): when LISTEN fails on an acquired connection, the
\* connection is released, the client reference is cleared, exactly one error
\* event and no connected event is emitted and the stream is closed; whatever
\* cleanup runs later, the connection has been released exactly once
C25_SubscribeFailure ==
  /\ [][\A c \in Conns :
          ListenRejected(c) =>
            LET s == Head(qq[c]).s
            IN /\ releaseCalls'[s] = releaseCalls[s] + 1
               /\ conn'[c] # "held"
               /\ client'[s] = 0
               /\ out'[s] = <<EvError>>
               /\ ctrl'[s] = "closed"]_vars
  /\ [](\A s \in Sessions :
          ListenFailed(s) =>
            (releaseCalls[s] = 1 /\ out[s] = <<EvError>> /\ ctrl[s] = "closed"))

\* C25 (amended): as claimed while the client is still there; when the
\* runtime had already cancelled the stream of a client that went away, no
\* error event is emitted and the stream stays cancelled
C25_SubscribeFailureOpen ==
  /\ [][\A c \in Conns :
          ListenRejected(c) =>
            LET s == Head(qq[c]).s
            IN /\ releaseCalls'[s] = releaseCalls[s] + 1
               /\ conn'[c] # "held"
               /\ client'[s] = 0
               /\ out'[s] = IF ctrl[s] = "cancelled" THEN <<>> ELSE <<EvError>>
               /\ ctrl'[s] = IF ctrl[s] = "cancelled" THEN "cancelled" ELSE "closed"]_vars
  /\ [](\A s \in Sessions :
          ListenFailed(s) =>
            /\ releaseCalls[s] = 1
            /\ out[s] = IF ctrl[s] = "cancelled" THEN <<>> ELSE <<EvError>>
            /\ ctrl[s] # "open")

\* the client went away while LISTEN was pending, LISTEN was rejected, and the
\* abort listener's cleanup finished after the client reference was cleared:
\* one release only
C25_Witness ==
  \E s \in Sessions :
    /\ ListenFailed(s)
    /\ cl[s]["abort"] = "done" /\ unlistenCalls[s] = 1
    /\ releaseCalls[s] = 1
    /\ out[s] = <<EvError>> /\ ctrl[s] = "closed"


(* ------------------- the stream consumer's resources -------------------- *)
\* at most one EventSource is open, and it is the one eventSourceRef holds
C26_OneEventSource ==
  /\ Cardinality(OpenES) <= 1
  /\ \A i \in OpenES : eventSourceRef = i

\* C26: in every reachable state of useRealtimeInventory at most one
\* EventSource is open, at most one reconnect timer is pending, and every
\* pending reconnect timer is the one recorded in reconnectTimeoutRef
C26_ClientResources ==
  /\ C26_OneEventSource
  /\ Cardinality(PendingTimers) <= 1
  /\ \A i \in PendingTimers : reconnectTimeoutRef = i


(* ------------------- the polling consumer's results --------------------- *)
\* C27: when two fetches of the mounted consumer have both resolved and both
\* results were applied, in whatever order the responses arrived, data holds
\* the result of the fetch that was started last
C27_LatestFetchWins ==
  (/\ pPhase = "live"
   /\ fetches = 2 /\ fetchFlight = {} /\ fetchFailed = {}
   /\ onUpdateCalls = 2) => data = 2

\* C28: while the consumer is mounted, isLoading is true exactly when at
\* least one fetch is in flight
C28_LoadingTracksFlight ==
  pPhase = "live" => (isLoading <=> fetchFlight # {})


\* C29: whenever isConnected is true, eventSourceRef holds an EventSource that
\* is open; after onerror or disconnect() isConnected is false
C29_ConnectedSound ==
  /\ [](isConnected => (eventSourceRef # 0 /\ es[eventSourceRef] = "open"))
  /\ [][((\E i \in ESIds : EsError(i)) \/ RtDisconnect \/ RtUnmount)
          => ~isConnected']_vars

\* connected again on a second EventSource, opened by reconnect() while the
\* reconnect timer of the first one was pending
C29_Witness ==
  /\ rtPhase = "live" /\ isConnected
  /\ es[1] = "closed" /\ timers[1] = "cleared"
  /\ es[2] = "open" /\ eventSourceRef = 2


\* C30: every event the notification handler enqueues for a payload that
\* parses (an object with or without a type field, or the absent payload) has
\* type inventory_update and the payload's operation and id
C30_RelayedFramedAsUpdate ==
  [][\A c \in Conns : \A s \in Sessions :
       (/\ Deliver(c)
        /\ HasHandler(c, s)
        /\ ~ParseThrows(Head(inbox[c]))
        /\ Len(out'[s]) = Len(out[s]) + 1)
       => LET e == out'[s][Len(out'[s])]
              obj == ParsePayload(Head(inbox[c]))
          IN  /\ e.type = "inventory_update"
              /\ e.op = obj.op
              /\ e.id = obj.id]_vars

=============================================================================
